---- MODULE Spec2Model ----
(***************************************************************************)
(* s3grep: the search pipeline of src/main.rs and line_matches of          *)
(* src/lib.rs.                                                             *)
(*                                                                         *)
(*   ScanSpec  one call of search_object on one object: the byte stream    *)
(*             arrives in chunks of any non-empty size (fill_buf), the     *)
(*             loop splits it into lines, the tail is flushed at end of    *)
(*             stream and the binary policy is applied.                    *)
(*   Spec      run(): list_objects_stream feeding buffer_unordered, the    *)
(*             per-key futures, the output channels and the exit status.   *)
(*             One step is one poll of the stream or of one future, up to  *)
(*             its next await.                                             *)
(*   FairSpec  Spec with every call answered and every ready future polled.*)
(*   FnSpec    one call of line_matches and one of highlight_match on a    *)
(*             line and a pattern.                                         *)
(*                                                                         *)
(* Bytes are numbers 0..255, text is a sequence of code points, a key is a *)
(* sequence of one-character strings.  Option<T> is a sequence of length   *)
(* at most one: <<>> is None, <<x>> is Some(x).                            *)
(***************************************************************************)
EXTENDS Integers, Sequences, FiniteSets, TLC

\* ------------------------------------------------------------------ bounds
MaxLen == 4
MaxMember == 2
MaxLine == 3
MaxPat == 2
MaxKeys == 3
MaxPages == 3
MaxTasks == 2

\* ------------------------------------------------------- program constants
NUL == 0
LF == 10
REPLACEMENT == 65533

\* The bytes objects are made of: NUL, line-feed, 'A', 'a' and 0xFF (never
\* valid in UTF-8).
Bytes == {NUL, LF, 65, 97, 255}
\* The patterns searched for: "", "a" and "A".
Patterns == {<<>>, <<97>>, <<65>>}

VARIABLES
    \* ---- Opt
    pattern,          \* opt.pattern, as code points
    case_sensitive,   \* opt.case_sensitive
    \* ---- one call of line_matches and of highlight_match
    arg_line,         \* the line argument
    matched,          \* None, then Some(what line_matches returned)
    highlighted,      \* None, then Some(what highlight_match returned)
    \* ---- the object search_object is called on
    object_key,       \* its key
    object_body,      \* the bytes stored under the key (GetObject body)
    \* ---- search_object, one call
    stream,           \* the bytes the reader delivers
    consumed,         \* how many of them reader.consume has taken
    is_binary,
    matches,
    line_buffer,
    line_num,
    scanned,          \* every (line_num, line) handed to line_matches, in order
    scan_pc,          \* "open" | "reading" | "ok" | "err" | "off"
    returned,         \* the Vec of Ok(...)
    notice,           \* "Binary file {key} matches" was printed
    \* ---- Opt, the pipeline's part
    concurrent_tasks, \* opt.concurrent_tasks
    quiet,            \* opt.quiet: progress is None
    \* ---- the storage backend
    pages,            \* the listing: the batches of keys, in page order
    list_requests,    \* the ListObjectsV2 requests received, in order
    get_requests,     \* how many GetObject requests were received, per key
    \* ---- list_objects_stream
    continuation_token, \* the unfold state: None, Some("") or Some(token)
    list_pc,          \* "idle" | "sent": req.send() is awaited
    page,             \* the items of the inner stream not yet yielded
    stream_done,      \* the stream has returned None
    yielded,          \* the items yielded to the consumer, in order
    \* ---- run
    run_pc,           \* "off" | "start" | "streaming" | "done" | "exit"
    in_progress,      \* buffer_unordered's queue of pending futures: [item, pc]
    collected,        \* the futures that completed, in completion order
    out,              \* the lines written to stdout and stderr, in order
    pos,              \* progress.inc: the processed-files counter
    finish_message,   \* finish_with_message("Search complete") was called
    exit_status       \* None while the process runs, then Some(code)

fn_vars == <<arg_line, matched, highlighted>>
scan_vars == <<object_key, object_body, stream, consumed, is_binary, matches, line_buffer, line_num,
               scanned, scan_pc, returned, notice>>
run_vars == <<concurrent_tasks, quiet, pages, list_requests, get_requests,
              continuation_token, list_pc, page, stream_done, yielded, run_pc,
              in_progress, collected, out, pos, finish_message, exit_status>>
vars == <<pattern, case_sensitive, fn_vars, scan_vars, run_vars>>

\* ------------------------------------------------------------ text helpers
\* char::to_lowercase on the code points used here: ASCII letters fold, the
\* Kelvin sign U+212A folds to 'k', every other code point is its own
\* lowercase.
Lower(c) ==
    IF c >= 65 /\ c <= 90 THEN c + 32
    ELSE IF c = 8490 THEN 107
    ELSE c

to_lowercase(s) == [i \in 1..Len(s) |-> Lower(s[i])]

\* String::from_utf8_lossy: ASCII bytes decode to themselves, a byte that can
\* start no UTF-8 sequence (0xFF) decodes to U+FFFD.
from_utf8_lossy(b) == [i \in 1..Len(b) |-> IF b[i] >= 128 THEN REPLACEMENT ELSE b[i]]

\* str::contains: needle occurs in hay as a contiguous substring.
contains(hay, needle) ==
    \E i \in 0..(Len(hay) - Len(needle)) :
        SubSeq(hay, i + 1, i + Len(needle)) = needle

line_matches_IgnoreCase(line, pat, cs) ==
    contains(to_lowercase(line), to_lowercase(pat))

line_matches(line, pat, cs) ==
    IF cs THEN contains(line, pat)
    ELSE contains(to_lowercase(line), to_lowercase(pat))

\* char::len_utf8.
len_utf8(c) == IF c < 128 THEN 1 ELSE IF c < 2048 THEN 2 ELSE IF c < 65536 THEN 3 ELSE 4

\* str::len: the length in bytes.
RECURSIVE str_len(_)
str_len(s) == IF s = <<>> THEN 0 ELSE len_utf8(Head(s)) + str_len(Tail(s))

\* str::find: the byte offset of the first occurrence, or None.
find(hay, needle) ==
    LET at == {i \in 0..(Len(hay) - Len(needle)) :
                  SubSeq(hay, i + 1, i + Len(needle)) = needle}
    IN  IF at = {} THEN <<>>
        ELSE <<str_len(SubSeq(hay, 1, CHOOSE i \in at : \A j \in at : i <= j))>>

\* str::is_char_boundary: the offset is the start of a character or the end
\* of the string.
is_char_boundary(s, off) == \E k \in 0..Len(s) : str_len(SubSeq(s, 1, k)) = off

\* The number of characters before a byte offset that is a boundary.
chars_before(s, off) == CHOOSE k \in 0..Len(s) : str_len(SubSeq(s, 1, k)) = off

\* highlight_match: the line cut around the region start..end that is
\* replaced by its coloured copy. The offsets are found in the lowercased
\* line and applied to the line itself; slicing the line at an offset that is
\* not a character boundary, or beyond its end, panics.
highlight_match(line, pat) ==
    LET found == find(to_lowercase(line), to_lowercase(pat))
    IN  IF found = <<>>
        THEN [panic |-> FALSE, pre |-> line, marked |-> <<>>, post |-> <<>>]
        ELSE LET start == found[1]
                 end   == start + str_len(pat)
             IN  IF is_char_boundary(line, start) /\ is_char_boundary(line, end)
                 THEN LET a == chars_before(line, start)
                          b == chars_before(line, end)
                      IN  [panic |-> FALSE,
                           pre |-> SubSeq(line, 1, a),
                           marked |-> <<SubSeq(line, a + 1, b)>>,
                           post |-> SubSeq(line, b + 1, Len(line))]
                 ELSE [panic |-> TRUE, pre |-> <<>>, marked |-> <<>>, post |-> <<>>]

\* ------------------------------------------------------------ search_object
\* The locals of search_object before the read loop.
ScanInit ==
    [is_binary |-> FALSE, matches |-> <<>>, line_buffer |-> <<>>,
     line_num |-> 0, scanned |-> <<>>]

ScanByte_CountMatchesOnly(st, byte, pat, cs) ==
    IF byte = LF
    THEN LET line == from_utf8_lossy(st.line_buffer)
             hit  == line_matches(line, pat, cs)
             n    == IF hit THEN st.line_num + 1 ELSE st.line_num
             st1  == [st EXCEPT !.line_num = n,
                                !.scanned = Append(@, <<n, line>>)]
         IN  IF hit
             THEN IF st.is_binary
                  THEN [st |-> st1, brk |-> TRUE]
                  ELSE [st |-> [st1 EXCEPT !.matches = Append(@, <<n, line>>),
                                           !.line_buffer = <<>>],
                        brk |-> FALSE]
             ELSE [st |-> [st1 EXCEPT !.line_buffer = <<>>], brk |-> FALSE]
    ELSE [st |-> [st EXCEPT !.line_buffer = Append(@, byte)], brk |-> FALSE]

\* One iteration of `for &byte in bytes`: brk tells that the iteration left
\* the for loop by `break`.
ScanByte(st, byte, pat, cs) ==
    IF byte = LF
    THEN LET n    == st.line_num + 1
             line == from_utf8_lossy(st.line_buffer)
             st1  == [st EXCEPT !.line_num = n,
                                !.scanned = Append(@, <<n, line>>)]
         IN  IF line_matches(line, pat, cs)
             THEN IF st.is_binary
                  THEN [st |-> st1, brk |-> TRUE]
                  ELSE [st |-> [st1 EXCEPT !.matches = Append(@, <<n, line>>),
                                           !.line_buffer = <<>>],
                        brk |-> FALSE]
             ELSE [st |-> [st1 EXCEPT !.line_buffer = <<>>], brk |-> FALSE]
    ELSE [st |-> [st EXCEPT !.line_buffer = Append(@, byte)], brk |-> FALSE]

RECURSIVE ForBytes(_, _, _, _, _)
ForBytes(st, bytes, i, pat, cs) ==
    IF i > Len(bytes) THEN st
    ELSE LET r == ScanByte(st, bytes[i], pat, cs)
         IN  IF r.brk THEN r.st ELSE ForBytes(r.st, bytes, i + 1, pat, cs)

\* One pass of the read loop over a non-empty chunk: the NUL check on the
\* whole chunk, then the for loop; the chunk is consumed whole afterwards.
ScanChunk(st, bytes, pat, cs) ==
    LET st0 == [st EXCEPT !.is_binary =
                    @ \/ (\E i \in 1..Len(bytes) : bytes[i] = NUL)]
    IN  ForBytes(st0, bytes, 1, pat, cs)

\* After the loop: the last line if the buffer is not empty.
ScanLastLine(st, pat, cs) ==
    IF st.line_buffer # <<>>
    THEN LET n    == st.line_num + 1
             line == from_utf8_lossy(st.line_buffer)
             st1  == [st EXCEPT !.line_num = n,
                                !.scanned = Append(@, <<n, line>>)]
         IN  IF line_matches(line, pat, cs)
             THEN [st1 EXCEPT !.matches = Append(@, <<n, line>>)]
             ELSE st1
    ELSE st

\* The binary policy at the end of search_object.
ScanResult(st) ==
    IF st.is_binary /\ st.matches # <<>>
    THEN [returned |-> <<>>, notice |-> TRUE]
    ELSE [returned |-> st.matches, notice |-> FALSE]

ScanState ==
    [is_binary |-> is_binary, matches |-> matches, line_buffer |-> line_buffer,
     line_num |-> line_num, scanned |-> scanned]

SetScanState(st) ==
    /\ is_binary' = st.is_binary
    /\ matches' = st.matches
    /\ line_buffer' = st.line_buffer
    /\ line_num' = st.line_num
    /\ scanned' = st.scanned

\* ------------------------------------------------------------- the bucket
\* The objects of the bucket, in the backend's listing order.
Bucket ==
    << [key |-> <<"a">>,       body |-> <<97, LF, 255, LF, 65>>],
       [key |-> <<"d", "/">>,  body |-> <<>>],
       [key |-> <<"b">>,       body |-> <<97, LF, NUL>>],
       [key |-> <<"c">>,       body |-> <<255, LF>>],
       [key |-> <<"e">>,       body |-> <<NUL, 65>>] >>

\* No GetObject request received yet.
NoRequests == [k \in {Bucket[i].key : i \in 1..Len(Bucket)} |-> 0]

\* The pipeline at rest: no run() in this specification.
RunOff ==
    /\ concurrent_tasks = 1
    /\ quiet = TRUE
    /\ pages = <<>>
    /\ list_requests = <<>>
    /\ get_requests = NoRequests
    /\ continuation_token = <<>>
    /\ list_pc = "idle"
    /\ page = <<>>
    /\ stream_done = FALSE
    /\ yielded = <<>>
    /\ run_pc = "off"
    /\ in_progress = <<>>
    /\ collected = <<>>
    /\ out = <<>>
    /\ pos = 0
    /\ finish_message = FALSE
    /\ exit_status = <<>>

\* No call of line_matches or highlight_match in this specification.
FnOff ==
    /\ arg_line = <<>>
    /\ matched = <<>>
    /\ highlighted = <<>>

ByteSeqs(n) == UNION {[1..k -> Bytes] : k \in 0..n}

\* key.ends_with(".gz")
gz_compression(k) ==
    Len(k) >= 3 /\ SubSeq(k, Len(k) - 2, Len(k)) = <<".", "g", "z">>

\* One gzip member for the bytes b, reduced to what the decoder depends on:
\* the magic byte, the length of the stored block, the coded bytes and the
\* size trailer.
GzipMember(b) ==
    <<31, Len(b)>> \o [i \in 1..Len(b) |-> (b[i] + 1) % 256] \o <<Len(b)>>

\* GzipDecoder::new(body): multiple_members is off, so the decoder decodes
\* the first member and then reports end of stream, whatever follows it; a
\* body that does not start with a whole member is an error.
GzipDecoder(b) ==
    LET n  == IF Len(b) >= 2 THEN b[2] ELSE 0
        ok == Len(b) >= n + 3 /\ b[1] = 31 /\ b[n + 3] = n
    IN  [bytes |-> IF ok THEN [i \in 1..n |-> (b[2 + i] + 255) % 256] ELSE <<>>,
         err |-> ~ok]

\* The reader search_object scans: the body itself, or the decoder over it.
Reader(k, b) ==
    IF gz_compression(k) THEN GzipDecoder(b) ELSE [bytes |-> b, err |-> FALSE]

\* The objects search_object is called on: any bytes under a plain key; under
\* a .gz key a gzip file of one or two members, or bytes that are no gzip file.
Objects ==
    {[key |-> <<"k">>, body |-> b] : b \in ByteSeqs(MaxLen)}
    \cup {[key |-> <<"k", ".", "g", "z">>, body |-> GzipMember(m)] :
              m \in ByteSeqs(MaxMember)}
    \cup {[key |-> <<"k", ".", "g", "z">>, body |-> GzipMember(m1) \o GzipMember(m2)] :
              m1 \in ByteSeqs(MaxMember), m2 \in ByteSeqs(MaxMember)}
    \cup {[key |-> <<"k", ".", "g", "z">>, body |-> <<97, LF>>]}

ScanStart ==
    /\ pattern \in Patterns
    /\ case_sensitive \in BOOLEAN
    /\ FnOff
    /\ \E o \in Objects : object_key = o.key /\ object_body = o.body
    /\ stream = <<>>
    /\ consumed = 0
    /\ is_binary = FALSE
    /\ matches = <<>>
    /\ line_buffer = <<>>
    /\ line_num = 0
    /\ scanned = <<>>
    /\ scan_pc = "open"
    /\ returned = <<>>
    /\ notice = FALSE
    /\ RunOff

\* client.get_object()...send().await? answers with the body: the reader is
\* built over it.
GetObjectOk ==
    /\ scan_pc = "open"
    /\ scan_pc' = "reading"
    /\ stream' = Reader(object_key, object_body).bytes
    /\ UNCHANGED <<pattern, case_sensitive, consumed, is_binary, matches,
                   line_buffer, line_num, scanned, returned, notice>>
    /\ UNCHANGED <<fn_vars, object_key, object_body, run_vars>>

\* client.get_object()...send().await? fails: search_object returns Err.
GetObjectErr ==
    /\ scan_pc = "open"
    /\ scan_pc' = "err"
    /\ UNCHANGED <<pattern, case_sensitive, stream, consumed, is_binary, matches,
                   line_buffer, line_num, scanned, returned, notice>>
    /\ UNCHANGED <<fn_vars, object_key, object_body, run_vars>>

\* reader.fill_buf() delivers the next n bytes, the loop body scans them and
\* reader.consume takes them all.
FillBuf(n) ==
    /\ scan_pc = "reading"
    /\ n \in 1..(Len(stream) - consumed)
    /\ SetScanState(ScanChunk(ScanState, SubSeq(stream, consumed + 1, consumed + n),
                              pattern, case_sensitive))
    /\ consumed' = consumed + n
    /\ UNCHANGED <<pattern, case_sensitive, stream, scan_pc, returned, notice>>
    /\ UNCHANGED <<fn_vars, object_key, object_body, run_vars>>

\* reader.fill_buf().await? fails (the body's transfer, or the decoder):
\* search_object returns Err, its locals are dropped.
FillBufErr ==
    /\ scan_pc = "reading"
    /\ scan_pc' = "err"
    /\ UNCHANGED <<pattern, case_sensitive, stream, consumed, is_binary, matches,
                   line_buffer, line_num, scanned, returned, notice>>
    /\ UNCHANGED <<fn_vars, object_key, object_body, run_vars>>

\* fill_buf delivers an empty slice: end of stream. The last line, then the
\* binary policy, then Ok(...).
EndOfStream ==
    /\ scan_pc = "reading"
    /\ consumed = Len(stream)
    /\ ~Reader(object_key, object_body).err
    /\ LET st  == ScanLastLine(ScanState, pattern, case_sensitive)
           res == ScanResult(st)
       IN  /\ SetScanState(st)
           /\ returned' = res.returned
           /\ notice' = res.notice
    /\ scan_pc' = "ok"
    /\ UNCHANGED <<pattern, case_sensitive, stream, consumed>>
    /\ UNCHANGED <<fn_vars, object_key, object_body, run_vars>>

ScanNext ==
    \/ GetObjectOk
    \/ GetObjectErr
    \/ \E n \in 1..(Len(stream) - consumed) : FillBuf(n)
    \/ FillBufErr
    \/ EndOfStream

ScanSpec == ScanStart /\ [][ScanNext]_vars

\* ------------------------------------- line_matches and highlight_match alone
\* The characters of lines and patterns: 'A', 'a', 'k' and the Kelvin sign.
TextChars == {65, 97, 107, 8490}

TextSeqs(n) == UNION {[1..k -> TextChars] : k \in 0..n}

FnStart ==
    /\ pattern \in TextSeqs(MaxPat)
    /\ case_sensitive \in BOOLEAN
    /\ arg_line \in TextSeqs(MaxLine)
    /\ matched = <<>>
    /\ highlighted = <<>>
    /\ object_key = <<>>
    /\ object_body = <<>>
    /\ stream = <<>>
    /\ consumed = 0
    /\ is_binary = FALSE
    /\ matches = <<>>
    /\ line_buffer = <<>>
    /\ line_num = 0
    /\ scanned = <<>>
    /\ scan_pc = "off"
    /\ returned = <<>>
    /\ notice = FALSE
    /\ RunOff

CallLineMatches ==
    /\ run_pc = "off"
    /\ scan_pc = "off"
    /\ matched = <<>>
    /\ matched' = <<line_matches(arg_line, pattern, case_sensitive)>>
    /\ UNCHANGED <<pattern, case_sensitive, arg_line, highlighted, scan_vars, run_vars>>

CallHighlightMatch ==
    /\ run_pc = "off"
    /\ scan_pc = "off"
    /\ highlighted = <<>>
    /\ highlighted' = <<highlight_match(arg_line, pattern)>>
    /\ UNCHANGED <<pattern, case_sensitive, arg_line, matched, scan_vars, run_vars>>

FnNext == CallLineMatches \/ CallHighlightMatch

FnSpec == FnStart /\ [][FnNext]_vars

\* --------------------------------------------------- reference: the lines
\* The lines of a byte stream, defined from the positions of its line-feeds:
\* line k runs from after the (k-1)-th line-feed to before the k-th one; the
\* bytes after the last line-feed are one more line if there are any.
LFs(b) == {i \in 1..Len(b) : b[i] = LF}

LastSegment(b) ==
    LET last == IF LFs(b) = {} THEN 0
                ELSE CHOOSE i \in LFs(b) : \A j \in LFs(b) : j <= i
    IN  SubSeq(b, last + 1, Len(b))

NumLines(b) == Cardinality(LFs(b)) + (IF LastSegment(b) # <<>> THEN 1 ELSE 0)

LineOf(b, k) ==
    IF k > Cardinality(LFs(b)) THEN LastSegment(b)
    ELSE LET e == CHOOSE i \in LFs(b) : Cardinality({j \in LFs(b) : j < i}) = k - 1
             s == IF k = 1 THEN 0
                  ELSE CHOOSE i \in LFs(b) : Cardinality({j \in LFs(b) : j < i}) = k - 2
         IN  SubSeq(b, s + 1, e - 1)

NumberedLines(b) == [k \in 1..NumLines(b) |-> <<k, from_utf8_lossy(LineOf(b, k))>>]

HasNul(b) == \E i \in 1..Len(b) : b[i] = NUL

Matching(b, pat, cs) ==
    SelectSeq(NumberedLines(b), LAMBDA m : line_matches(m[2], pat, cs))

\* The pattern and the case mode of the runs: "a", case-insensitive.
RunPattern == <<97>>
RunCaseSensitive == FALSE

BucketKeys(n) == [k \in 1..n |-> Bucket[k].key]

Body(key) == Bucket[CHOOSE k \in 1..Len(Bucket) : Bucket[k].key = key].body

\* Every way of cutting a sequence of keys into at most p pages, empty pages
\* included.
RECURSIVE Paginations(_, _)
Paginations(keys, p) ==
    (IF keys = <<>> THEN {<<>>} ELSE {}) \cup
    (IF p = 0 THEN {}
     ELSE UNION {{<<SubSeq(keys, 1, i)>> \o rest :
                     rest \in Paginations(SubSeq(keys, i + 1, Len(keys)), p - 1)} :
                 i \in 0..Len(keys)})

RECURSIVE Concat(_)
Concat(ps) == IF ps = <<>> THEN <<>> ELSE Head(ps) \o Concat(Tail(ps))

\* ListObjectsV2 of the backend. A request without continuation token is
\* answered with the first page, a request with token t with page t + 1; the
\* answer carries the next token exactly when a further page exists. The
\* backend's tokens are never the empty string (token 0).
ListPage(req) ==
    LET i == IF req = <<>> THEN 1 ELSE req[1] + 1
    IN  [contents |-> IF i <= Len(pages) THEN pages[i] ELSE <<>>,
         next_continuation_token |-> IF i < Len(pages) THEN <<i>> ELSE <<>>]

\* ------------------------------------------------------ list_objects_stream
\* The request built from the token of the unfold state: the continuation
\* token is set only if the token is not the empty string.
ListRequest_IgnoreToken(token) == <<>>

ListRequest(token) == IF token = 0 THEN <<>> ELSE <<token>>

UnfoldOk_StopOnEmpty(resp) ==
    LET objects == resp.contents
        next_token == resp.next_continuation_token
    IN  IF objects = <<>>
        THEN [end |-> TRUE, items |-> <<>>, token |-> <<>>]
        ELSE [end |-> FALSE,
              items |-> [i \in 1..Len(objects) |-> [ok |-> TRUE, key |-> objects[i]]],
              token |-> next_token]

\* The Ok arm of the unfold closure: None (the stream ends) or the inner
\* stream and the next unfold state.
UnfoldOk(resp) ==
    LET objects == resp.contents
        next_token == resp.next_continuation_token
    IN  IF objects = <<>> /\ next_token = <<>>
        THEN [end |-> TRUE, items |-> <<>>, token |-> <<>>]
        ELSE [end |-> FALSE,
              items |-> [i \in 1..Len(objects) |-> [ok |-> TRUE, key |-> objects[i]]],
              token |-> next_token]

\* The Err arm of the unfold closure: an empty inner stream and the state None.
UnfoldErr == [end |-> FALSE, items |-> <<>>, token |-> <<>>]

\* ---------------------------------------------------------------- printing
Progress == IF quiet THEN <<>> ELSE <<"progress">>

\* print_with_target: the line written, its channel, and the bar suspended
\* around the write (None: written with no bar suspended).
print_with_target(bar, msg, target) ==
    [target |-> target, kind |-> msg.kind, key |-> msg.key,
     line_num |-> msg.line_num, text |-> msg.text, suspended |-> bar]

\* eprintln! outside print_with_target.
eprintln(msg) ==
    [target |-> "stderr", kind |-> msg.kind, key |-> msg.key,
     line_num |-> msg.line_num, text |-> msg.text, suspended |-> <<>>]

Msg(kind, key, n, text) == [kind |-> kind, key |-> key, line_num |-> n, text |-> text]

\* ------------------------------------------------------------ run: futures
ends_with_Never(key, c) == FALSE

ends_with(key, c) == key # <<>> /\ key[Len(key)] = c

HasFreeSlot_OffByOne == Len(in_progress) <= concurrent_tasks

HasFreeSlot_WholeBatch == in_progress = <<>> /\ concurrent_tasks > 0

\* buffer_unordered pulls the next future from the stream only while its
\* queue holds fewer than concurrent_tasks futures.
HasFreeSlot == Len(in_progress) < concurrent_tasks

CollectDone_StreamOnly == stream_done

\* buffer_unordered ends when the stream is done and the queue is empty.
CollectDone == stream_done /\ in_progress = <<>>

RemoveAt(q, i) == SubSeq(q, 1, i - 1) \o SubSeq(q, i + 1, Len(q))

\* The read loop of search_object over a whole body delivered in the chunks
\* that end at the positions in cuts and at the end of the body.
RECURSIVE ReadLoop(_, _, _, _, _, _)
ReadLoop(st, body, from, cuts, pat, cs) ==
    IF from > Len(body) THEN st
    ELSE LET ends == {c \in cuts : c >= from} \cup {Len(body)}
             e    == CHOOSE c \in ends : \A d \in ends : c <= d
         IN  ReadLoop(ScanChunk(st, SubSeq(body, from, e), pat, cs),
                      body, e + 1, cuts, pat, cs)

search_object(body, cuts, pat, cs) ==
    ScanResult(ScanLastLine(ReadLoop(ScanInit, body, 1, cuts, pat, cs), pat, cs))

\* What search_object can return for each object of the bucket, over every
\* chunking of its body, with the pattern and case mode of the run.
ObjectResults ==
    [k \in 1..Len(Bucket) |->
        {search_object(Bucket[k].body, cuts, RunPattern, RunCaseSensitive) :
            cuts \in SUBSET (1..(Len(Bucket[k].body) - 1))}]

SearchResults(key) == ObjectResults[CHOOSE k \in 1..Len(Bucket) : Bucket[k].key = key]

\* The lines search_object itself prints: the binary notice, under the byte
\* progress bar.
NoticeLines(key, res) ==
    IF res.notice
    THEN <<print_with_target(<<"byte_progress">>, Msg("binary", key, 0, <<>>), "stdout")>>
    ELSE <<>>

MatchLines_Reversed(key, ms) ==
    [i \in 1..Len(ms) |->
        print_with_target(Progress,
            Msg("match", key, ms[Len(ms) + 1 - i][1], ms[Len(ms) + 1 - i][2]), "stdout")]

\* The Ok(matches) arm of the closure: one line per match, in order.
MatchLines(key, ms) ==
    [i \in 1..Len(ms) |->
        print_with_target(Progress, Msg("match", key, ms[i][1], ms[i][2]), "stdout")]

ErrorLines_Swallowed(key, e) == <<>>

\* The Err(e) arm of the closure: one diagnostic with the key and the message.
ErrorLines(key, e) ==
    <<print_with_target(Progress, Msg("error", key, 0, e), "stderr")>>

Finish_SkipErrors(key, outcome, lines, inc) ==
    /\ collected' = Append(collected, [key |-> key, outcome |-> outcome])
    /\ out' = out \o lines
    /\ pos' = IF inc /\ ~quiet /\ outcome # "error" THEN pos + 1 ELSE pos

\* A future runs to its end: its lines are written, the processed counter is
\* advanced and its unit value is collected.
Finish(key, outcome, lines, inc) ==
    /\ collected' = Append(collected, [key |-> key, outcome |-> outcome])
    /\ out' = out \o lines
    /\ pos' = IF inc /\ ~quiet THEN pos + 1 ELSE pos

\* A future of the queue completes: it leaves the queue.
Complete(i, outcome, lines, inc) ==
    /\ in_progress' = RemoveAt(in_progress, i)
    /\ Finish(in_progress[i].item.key, outcome, lines, inc)

RunStart ==
    /\ pattern = RunPattern
    /\ case_sensitive = RunCaseSensitive
    /\ FnOff
    /\ object_key = <<>>
    /\ object_body = <<>>
    /\ stream = <<>>
    /\ consumed = 0
    /\ is_binary = FALSE
    /\ matches = <<>>
    /\ line_buffer = <<>>
    /\ line_num = 0
    /\ scanned = <<>>
    /\ scan_pc = "off"
    /\ returned = <<>>
    /\ notice = FALSE
    /\ concurrent_tasks \in 0..MaxTasks
    /\ quiet \in BOOLEAN
    /\ \E n \in 0..MaxKeys : pages \in Paginations(BucketKeys(n), MaxPages)
    /\ list_requests = <<>>
    /\ get_requests = NoRequests
    /\ continuation_token = <<0>>
    /\ list_pc = "idle"
    /\ page = <<>>
    /\ stream_done = FALSE
    /\ yielded = <<>>
    /\ run_pc = "start"
    /\ in_progress = <<>>
    /\ collected = <<>>
    /\ out = <<>>
    /\ pos = 0
    /\ finish_message = FALSE
    /\ exit_status = <<>>

\* run() up to the pipeline: the client for the bucket's region is created.
ClientOk ==
    /\ run_pc = "start"
    /\ run_pc' = "streaming"
    /\ UNCHANGED <<pattern, case_sensitive, fn_vars, scan_vars, concurrent_tasks, quiet, pages,
                   list_requests, get_requests, continuation_token, list_pc, page,
                   stream_done, yielded, in_progress, collected, out, pos,
                   finish_message, exit_status>>

\* create_client_in_bucket_region_reuse_config fails: run returns Err, main
\* prints "s3grep error" and exits with status 1.
ClientErr ==
    /\ run_pc = "start"
    /\ run_pc' = "exit"
    /\ out' = Append(out, eprintln(Msg("s3grep error", <<>>, 0, <<"region">>)))
    /\ exit_status' = <<1>>
    /\ UNCHANGED <<pattern, case_sensitive, fn_vars, scan_vars, concurrent_tasks, quiet, pages,
                   list_requests, get_requests, continuation_token, list_pc, page,
                   stream_done, yielded, in_progress, collected, pos, finish_message>>

\* The unfold closure is polled with Some(token): the listing request is sent.
ListSend ==
    /\ run_pc = "streaming"
    /\ HasFreeSlot
    /\ ~stream_done
    /\ page = <<>>
    /\ list_pc = "idle"
    /\ continuation_token # <<>>
    /\ list_requests' = Append(list_requests, ListRequest(continuation_token[1]))
    /\ list_pc' = "sent"
    /\ UNCHANGED <<pattern, case_sensitive, fn_vars, scan_vars, concurrent_tasks, quiet, pages,
                   get_requests, continuation_token, page, stream_done, yielded,
                   run_pc, in_progress, collected, out, pos, finish_message,
                   exit_status>>

\* The unfold closure is polled with None: the stream ends.
ListEnd ==
    /\ run_pc = "streaming"
    /\ HasFreeSlot
    /\ ~stream_done
    /\ page = <<>>
    /\ list_pc = "idle"
    /\ continuation_token = <<>>
    /\ stream_done' = TRUE
    /\ UNCHANGED <<pattern, case_sensitive, fn_vars, scan_vars, concurrent_tasks, quiet, pages,
                   list_requests, get_requests, continuation_token, list_pc, page,
                   yielded, run_pc, in_progress, collected, out, pos, finish_message,
                   exit_status>>

\* req.send() answers Ok(resp).
ListOk ==
    /\ run_pc = "streaming"
    /\ HasFreeSlot
    /\ list_pc = "sent"
    /\ LET u == UnfoldOk(ListPage(list_requests[Len(list_requests)]))
       IN  /\ stream_done' = u.end
           /\ page' = u.items
           /\ continuation_token' = u.token
    /\ list_pc' = "idle"
    /\ UNCHANGED <<pattern, case_sensitive, fn_vars, scan_vars, concurrent_tasks, quiet, pages,
                   list_requests, get_requests, yielded, run_pc, in_progress,
                   collected, out, pos, finish_message, exit_status>>

\* req.send() answers Err(e): "Error listing objects" goes to stderr.
ListErr ==
    /\ run_pc = "streaming"
    /\ HasFreeSlot
    /\ list_pc = "sent"
    /\ out' = Append(out, eprintln(Msg("listing error", <<>>, 0, <<"list">>)))
    /\ stream_done' = UnfoldErr.end
    /\ page' = UnfoldErr.items
    /\ continuation_token' = UnfoldErr.token
    /\ list_pc' = "idle"
    /\ UNCHANGED <<pattern, case_sensitive, fn_vars, scan_vars, concurrent_tasks, quiet, pages,
                   list_requests, get_requests, yielded, run_pc, in_progress,
                   collected, pos, finish_message, exit_status>>

\* The flattened stream yields its next item, map makes the future of it,
\* buffer_unordered pushes the future on its queue and polls it, in the same
\* poll_next, up to its first await. An Err item: the diagnostic and nothing
\* else. A key that ends with '/': "Is a directory" and the counter, and the
\* future is complete. Any other key: search_object sends GetObject.
Yield ==
    /\ run_pc = "streaming"
    /\ HasFreeSlot
    /\ page # <<>>
    /\ yielded' = Append(yielded, Head(page))
    /\ page' = Tail(page)
    /\ LET item == Head(page)
       IN  IF ~item.ok
           THEN /\ Finish(item.key, "listing error",
                          <<print_with_target(Progress,
                                Msg("Error searching objects", <<>>, 0, item.key),
                                "stderr")>>, FALSE)
                /\ UNCHANGED <<in_progress, get_requests>>
           ELSE IF ends_with(item.key, "/")
           THEN /\ Finish(item.key, "directory",
                          <<print_with_target(Progress,
                                Msg("directory", item.key, 0, <<>>), "stderr")>>,
                          TRUE)
                /\ UNCHANGED <<in_progress, get_requests>>
           ELSE /\ get_requests' = [get_requests EXCEPT ![item.key] = @ + 1]
                /\ in_progress' = Append(in_progress, [item |-> item, pc |-> "get"])
                /\ UNCHANGED <<collected, out, pos>>
    /\ UNCHANGED <<pattern, case_sensitive, fn_vars, scan_vars, concurrent_tasks, quiet, pages,
                   list_requests, continuation_token, list_pc, stream_done, run_pc,
                   finish_message, exit_status>>

\* GetObject answers with the body: the read loop starts.
TaskGetOk(i) ==
    /\ run_pc = "streaming"
    /\ i \in 1..Len(in_progress)
    /\ in_progress[i].pc = "get"
    /\ in_progress' = [in_progress EXCEPT ![i].pc = "read"]
    /\ UNCHANGED <<pattern, case_sensitive, fn_vars, scan_vars, concurrent_tasks, quiet, pages,
                   list_requests, get_requests, continuation_token, list_pc, page,
                   stream_done, yielded, run_pc, collected, out, pos, finish_message,
                   exit_status>>

\* GetObject fails: search_object returns Err, the closure prints it.
TaskGetErr(i) ==
    /\ run_pc = "streaming"
    /\ i \in 1..Len(in_progress)
    /\ in_progress[i].pc = "get"
    /\ Complete(i, "error", ErrorLines(in_progress[i].item.key, <<"get">>), TRUE)
    /\ UNCHANGED <<pattern, case_sensitive, fn_vars, scan_vars, concurrent_tasks, quiet, pages,
                   list_requests, get_requests, continuation_token, list_pc, page,
                   stream_done, yielded, run_pc, finish_message, exit_status>>

\* The body is read to its end in some chunking: search_object returns Ok and
\* the closure prints the matches.
TaskReadEof(i) ==
    /\ run_pc = "streaming"
    /\ i \in 1..Len(in_progress)
    /\ in_progress[i].pc = "read"
    /\ \E res \in SearchResults(in_progress[i].item.key) :
          Complete(i, IF res.notice THEN "binary" ELSE "matches",
                   NoticeLines(in_progress[i].item.key, res)
                       \o MatchLines(in_progress[i].item.key, res.returned),
                   TRUE)
    /\ UNCHANGED <<pattern, case_sensitive, fn_vars, scan_vars, concurrent_tasks, quiet, pages,
                   list_requests, get_requests, continuation_token, list_pc, page,
                   stream_done, yielded, run_pc, finish_message, exit_status>>

\* A read of the body fails: search_object returns Err, the closure prints it.
TaskReadErr(i) ==
    /\ run_pc = "streaming"
    /\ i \in 1..Len(in_progress)
    /\ in_progress[i].pc = "read"
    /\ Complete(i, "error", ErrorLines(in_progress[i].item.key, <<"read">>), TRUE)
    /\ UNCHANGED <<pattern, case_sensitive, fn_vars, scan_vars, concurrent_tasks, quiet, pages,
                   list_requests, get_requests, continuation_token, list_pc, page,
                   stream_done, yielded, run_pc, finish_message, exit_status>>

\* collect returns: the completion message if there is a progress bar, then
\* Ok(()) and the process ends with status 0.
RunFinish ==
    /\ run_pc = "streaming"
    /\ CollectDone
    /\ finish_message' = ~quiet
    /\ exit_status' = <<0>>
    /\ run_pc' = "done"
    /\ UNCHANGED <<pattern, case_sensitive, fn_vars, scan_vars, concurrent_tasks, quiet, pages,
                   list_requests, get_requests, continuation_token, list_pc, page,
                   stream_done, yielded, in_progress, collected, out, pos>>

Next ==
    \/ ClientOk
    \/ ClientErr
    \/ ListSend
    \/ ListEnd
    \/ ListOk
    \/ ListErr
    \/ Yield
    \/ \E i \in DOMAIN in_progress : TaskGetOk(i)
    \/ \E i \in DOMAIN in_progress : TaskGetErr(i)
    \/ \E i \in DOMAIN in_progress : TaskReadEof(i)
    \/ \E i \in DOMAIN in_progress : TaskReadErr(i)
    \/ RunFinish

Spec == RunStart /\ [][Next]_vars

\* The backend answers every call and the executor polls every future that
\* can make progress.
FairSpec == Spec /\ WF_vars(Next)

\* ------------------------------------------------------------------ claims
\* C3: an object whose stream holds a NUL byte returns no LineMatch, and the
\* binary notice is printed exactly when some line of the object satisfies
\* the match predicate.
C3_BinaryPolicy ==
    (scan_pc = "ok" /\ HasNul(stream)) =>
        /\ returned = <<>>
        /\ notice <=> (Matching(stream, pattern, case_sensitive) # <<>>)

\* C9: for an object without NUL bytes the lines handed to the predicate are
\* numbered 1, 2, 3, ... in stream order with no gaps, each with the text of
\* that line, and the matches returned are exactly the lines that satisfy the
\* predicate, in ascending line number.
C9_LineNumbers ==
    (scan_pc = "ok" /\ ~HasNul(stream)) =>
        /\ scanned = NumberedLines(stream)
        /\ returned = Matching(stream, pattern, case_sensitive)
        /\ \A i, j \in 1..Len(returned) : i < j => returned[i][1] < returned[j][1]

C9_Witness ==
    /\ scan_pc = "ok"
    /\ ~HasNul(stream)
    /\ Len(returned) = 2
    /\ returned[1][1] = 1
    /\ returned[2][1] = 3
    /\ Len(scanned) = 3

\* C10: a stream that does not end with a line-feed has the bytes after its
\* last line-feed scanned as one final line, with the next line number and the
\* same match rule (a match is returned, or counted for the binary notice); a
\* stream that ends with a line-feed, or is empty, has no extra empty final
\* line.
C10_LastLine ==
    scan_pc = "ok" =>
        LET n == Cardinality(LFs(stream))
            t == from_utf8_lossy(LastSegment(stream))
        IN  IF t # <<>>
            THEN /\ scanned # <<>>
                 /\ scanned[Len(scanned)] = <<n + 1, t>>
                 /\ line_matches(t, pattern, case_sensitive) =>
                        (notice \/ \E i \in 1..Len(returned) : returned[i] = <<n + 1, t>>)
            ELSE \A i \in 1..Len(scanned) : scanned[i][1] > n => scanned[i][2] # <<>>

\* ------------------------------------------------------ claims: the pipeline
\* The search_object invocations between their first poll and their return.
ActiveSearches == Cardinality({i \in 1..Len(in_progress) : in_progress[i].pc \in {"get", "read"}})

YieldedKeys == [i \in 1..Len(yielded) |-> yielded[i].key]

ListingFailed == \E i \in 1..Len(out) : out[i].kind = "listing error"

IsPrefix(a, b) == Len(a) <= Len(b) /\ SubSeq(b, 1, Len(a)) = a

LinesOf(key) == SelectSeq(out, LAMBDA l : l.key = key)

OutcomesOf(key) == SelectSeq(collected, LAMBDA c : c.key = key)

\* C1: at no point are more than concurrent_tasks search_object invocations
\* active, whatever the interleaving of listing answers and completions.
C1_BoundedConcurrency ==
    /\ ActiveSearches <= concurrent_tasks
    /\ Len(in_progress) <= concurrent_tasks

C1_Witness ==
    /\ concurrent_tasks >= 1
    /\ ActiveSearches = concurrent_tasks
    /\ page # <<>>

\* C2: the keys yielded by list_objects_stream are, in order, the keys of the
\* pages in page order: a prefix of them at every moment, and all of them once
\* the stream has ended without a listing failure; every item is an Ok key.
C2_ListingComplete ==
    /\ \A i \in 1..Len(yielded) : yielded[i].ok
    /\ IsPrefix(YieldedKeys, Concat(pages))
    /\ (stream_done /\ ~ListingFailed) => YieldedKeys = Concat(pages)

C2_Witness ==
    /\ stream_done
    /\ ~ListingFailed
    /\ Len(pages) = 3
    /\ pages[1] # <<>>
    /\ pages[2] = <<>>
    /\ pages[3] # <<>>
    /\ YieldedKeys = Concat(pages)

\* C4: the run completes only after the enumerator is exhausted and no future
\* is in flight, with exactly one outcome for every key yielded; and with a
\* backend that answers every call and at least one slot, it terminates.
C4_Drained ==
    run_pc = "done" =>
        /\ stream_done
        /\ page = <<>>
        /\ list_pc = "idle"
        /\ in_progress = <<>>
        /\ ListingFailed \/ YieldedKeys = Concat(pages)
        /\ Len(collected) = Len(yielded)
        /\ \A i \in 1..Len(yielded) : Len(OutcomesOf(yielded[i].key)) = 1

C4_DrainsAndTerminates ==
    /\ []C4_Drained
    /\ (concurrent_tasks >= 1) => <>(run_pc \in {"done", "exit"})

C4_Witness ==
    /\ run_pc = "done"
    /\ Len(collected) = 3
    /\ \E i \in 1..Len(collected) :
          collected[i].outcome = "matches" /\ Len(LinesOf(collected[i].key)) = 2

\* The lines a key produces when nothing fails.
ExpectedLines(key) ==
    IF ends_with(key, "/")
    THEN <<print_with_target(Progress, Msg("directory", key, 0, <<>>), "stderr")>>
    ELSE LET res == search_object(Body(key), {}, RunPattern, RunCaseSensitive)
         IN  NoticeLines(key, res) \o MatchLines(key, res.returned)

\* C5: a failed fetch or read of one object gives exactly one error diagnostic
\* with its key and message and no match line, its GetObject is sent once, and
\* every other key gives the lines it gives without the failure.
C5_FailureIsolated ==
    run_pc = "done" =>
        /\ Len(collected) = Len(yielded)
        /\ \A i \in 1..Len(collected) :
              LET key == collected[i].key
              IN  IF collected[i].outcome = "error"
                  THEN /\ Len(LinesOf(key)) = 1
                       /\ LinesOf(key)[1].kind = "error"
                       /\ LinesOf(key)[1].target = "stderr"
                       /\ LinesOf(key)[1].text # <<>>
                       /\ get_requests[key] = 1
                  ELSE LinesOf(key) = ExpectedLines(key)

C5_Witness ==
    /\ run_pc = "done"
    /\ \E i, j \in 1..Len(collected) :
          /\ i < j
          /\ collected[i].outcome = "error"
          /\ collected[j].outcome \in {"matches", "binary"}
          /\ LinesOf(collected[j].key) # <<>>

\* C6: when a listing request fails, the stream yields exactly one error item,
\* as its last item, and ends; no listing request is outstanding or sent
\* afterwards.
C6_ListingErrorItem ==
    (ListingFailed /\ stream_done) =>
        /\ Cardinality({i \in 1..Len(yielded) : ~yielded[i].ok}) = 1
        /\ ~yielded[Len(yielded)].ok
        /\ list_pc = "idle"
        /\ continuation_token = <<>>

\* C7: a run in which a listing call failed lets the dispatched futures finish
\* and ends with a non-zero exit status, never with the "Search complete"
\* message.
C7_ListingFatal ==
    ListingFailed =>
        /\ ~finish_message
        /\ exit_status # <<0>>
        /\ exit_status # <<>> => in_progress = <<>>

\* C8: with concurrent_tasks = 0 the run is rejected before the pipeline
\* starts: no listing request and no GetObject is ever sent.
C8_ConfigRejected ==
    concurrent_tasks < 1 =>
        /\ run_pc \in {"start", "exit"}
        /\ list_requests = <<>>
        /\ get_requests = NoRequests

\* ------------------------------------------- claims: the functions on lines
\* needle occurs in hay at character offset i, letters compared as they are
\* or with their case folded.
OccursAt(hay, needle, i, folded) ==
    /\ i + Len(needle) <= Len(hay)
    /\ \A j \in 1..Len(needle) :
          IF folded THEN Lower(hay[i + j]) = Lower(needle[j])
          ELSE hay[i + j] = needle[j]

Occurs(hay, needle, folded) == \E i \in 0..Len(hay) : OccursAt(hay, needle, i, folded)

\* The texts that differ from s in the case of their letters only.
RECURSIVE CaseVariants(_)
CaseVariants(s) ==
    IF s = <<>> THEN {<<>>}
    ELSE {<<c>> \o r : c \in {d \in TextChars : Lower(d) = Lower(Head(s))},
                        r \in CaseVariants(Tail(s))}

\* C11: case-insensitive, line_matches is true exactly when the pattern
\* occurs in the line with the case of the letters ignored, and gives the same
\* answer for every case combination of the line and the pattern;
\* case-sensitive, it is true exactly when the pattern occurs literally, so a
\* pattern that differs in case only does not match.
C11_LineMatches ==
    matched # <<>> =>
        IF case_sensitive
        THEN matched[1] = Occurs(arg_line, pattern, FALSE)
        ELSE /\ matched[1] = Occurs(arg_line, pattern, TRUE)
             /\ \A l \in CaseVariants(arg_line), p \in CaseVariants(pattern) :
                   line_matches(l, p, FALSE) = matched[1]

C11_Witness ==
    /\ matched = <<FALSE>>
    /\ case_sensitive
    /\ pattern = <<97>>
    /\ arg_line = <<107, 65>>

\* C14: highlight_match marks one region, the first occurrence of the pattern
\* with the case of the letters ignored, as long as the pattern; the marked
\* text and the text around it are the line's own, and a line with no
\* occurrence comes back unchanged.
C14_HighlightFirst ==
    highlighted # <<>> =>
        LET at == {i \in 0..Len(arg_line) : OccursAt(arg_line, pattern, i, TRUE)}
        IN  IF at = {}
            THEN highlighted[1] =
                    [panic |-> FALSE, pre |-> arg_line, marked |-> <<>>, post |-> <<>>]
            ELSE LET i == CHOOSE a \in at : \A b \in at : a <= b
                 IN  highlighted[1] =
                        [panic |-> FALSE,
                         pre |-> SubSeq(arg_line, 1, i),
                         marked |-> <<SubSeq(arg_line, i + 1, i + Len(pattern))>>,
                         post |-> SubSeq(arg_line, i + Len(pattern) + 1, Len(arg_line))]

\* ---------------------------------------------- claims: keys of the pipeline
IsContainer(k) == k # <<>> /\ k[Len(k)] = "/"

\* C12: a key that ends with '/' is never passed to search_object (no
\* GetObject is sent for it and it never enters the queue of searches) and
\* gives exactly one line, the skipped-as-directory diagnostic on stderr.
C12_ContainerSkipped ==
    \A i \in 1..Len(yielded) :
        IsContainer(yielded[i].key) =>
            /\ get_requests[yielded[i].key] = 0
            /\ \A j \in 1..Len(in_progress) : in_progress[j].item.key # yielded[i].key
            /\ Len(LinesOf(yielded[i].key)) = 1
            /\ LinesOf(yielded[i].key)[1].kind = "directory"
            /\ LinesOf(yielded[i].key)[1].target = "stderr"
            /\ OutcomesOf(yielded[i].key) =
                   <<[key |-> yielded[i].key, outcome |-> "directory"]>>

C12_Witness ==
    /\ run_pc = "done"
    /\ \E i \in 1..Len(yielded) : IsContainer(yielded[i].key)
    /\ \E i \in 1..Len(out) : out[i].kind = "match"

\* C13: with the progress display on, every line written during the pipeline
\* (match, binary notice, directory, per-object error, listing error) is
\* written under a suspended bar of the display.
C13_WritesSuspended ==
    \A i \in 1..Len(out) :
        (~quiet /\ out[i].kind # "s3grep error") => out[i].suspended # <<>>

\* --------------------------------------------------- claims: the scan, more
\* The uncompressed bytes of a gzip file: the bytes of its members, in order.
RECURSIVE Gunzip(_)
Gunzip(b) ==
    IF b = <<>> THEN <<>>
    ELSE GzipDecoder(b).bytes \o Gunzip(SubSeq(b, b[2] + 4, Len(b)))

\* C15: the matches returned for a .gz object are the matches returned for
\* its uncompressed bytes stored under a key without the suffix.
C15_GzipTransparent ==
    (scan_pc = "ok" /\ gz_compression(object_key)) =>
        returned = search_object(Gunzip(object_body), {}, pattern, case_sensitive).returned

\* ------------------------------------------------ claims: the pipeline, more
YieldIndex(k) == CHOOSE i \in 1..Len(yielded) : yielded[i].key = k

\* C16: searches start in enumeration order over a sliding window. Whenever
\* the queue holds fewer than concurrent_tasks searches, the next key of the
\* page can be started at once, and with no key at hand the listing can go
\* on, whatever the searches still in the queue are doing; every key yielded
\* has been started, and the queue holds its searches in the order of the
\* enumeration.
C16_SlidingWindow ==
    /\ (run_pc = "streaming" /\ Len(in_progress) < concurrent_tasks) =>
          /\ page # <<>> => ENABLED Yield
          /\ (page = <<>> /\ ~stream_done) =>
                ENABLED (ListSend \/ ListEnd \/ ListOk \/ ListErr)
    /\ Len(yielded) = Len(in_progress) + Len(collected)
    /\ \A i, j \in 1..Len(in_progress) :
          i < j => YieldIndex(in_progress[i].item.key) < YieldIndex(in_progress[j].item.key)

C16_Witness ==
    /\ concurrent_tasks = 2
    /\ Len(in_progress) = 1
    /\ \E i \in 1..Len(collected) :
          /\ collected[i].outcome \in {"matches", "binary"}
          /\ YieldIndex(in_progress[1].item.key) < YieldIndex(collected[i].key)

\* C17: listing requests go out one after the other. Request 1 carries no
\* cursor and request i + 1 the cursor of answer i, so no cursor is used
\* twice; while a request is outstanding the keys of every page answered
\* before have all been yielded; and no request follows an answer without a
\* next cursor, or a failed request.
C17_ListingSequential ==
    /\ \A i \in 1..Len(list_requests) :
          list_requests[i] = IF i = 1 THEN <<>> ELSE <<i - 1>>
    /\ \A i, j \in 1..Len(list_requests) : i < j => list_requests[i] # list_requests[j]
    /\ list_pc = "sent" =>
          /\ page = <<>>
          /\ ~ListingFailed
          /\ YieldedKeys = Concat(SubSeq(pages, 1, Len(list_requests) - 1))
    /\ Len(list_requests) <= (IF pages = <<>> THEN 1 ELSE Len(pages))
    /\ stream_done => list_pc = "idle"

C17_Witness ==
    /\ Len(list_requests) = 3
    /\ list_pc = "sent"
    /\ Len(yielded) = 2
    /\ in_progress # <<>>

\* C18: during the read loop the line buffer holds the bytes consumed since
\* the last line-feed and nothing else: every line-feed has left it empty and
\* no byte after it has been skipped.
C18_LineFeedClears ==
    scan_pc = "reading" =>
        line_buffer = LastSegment(SubSeq(stream, 1, consumed))

\* C19: the matches returned and the binary notice are those of the same
\* stream read in one chunk, however the stream was cut into chunks.
C19_ChunkIndependent ==
    scan_pc = "ok" =>
        [returned |-> returned, notice |-> notice]
            = search_object(stream, {}, pattern, case_sensitive)

\* C20: the match lines of one object are written in ascending line number
\* with no line of another object, or of another kind, between them.
C20_MatchLinesContiguous ==
    \A i, j \in 1..Len(out) :
        (i < j /\ out[i].kind = "match" /\ out[j].kind = "match"
               /\ out[i].key = out[j].key) =>
            /\ out[i].line_num < out[j].line_num
            /\ \A k \in i..j : out[k].kind = "match" /\ out[k].key = out[i].key

C20_Witness ==
    /\ concurrent_tasks = 2
    /\ in_progress # <<>>
    /\ \E i \in 2..(Len(out) - 1) :
          /\ out[i].kind = "match"
          /\ out[i + 1].kind = "match"
          /\ out[i - 1].key # out[i].key

\* C21: with the progress display on, the processed-files counter counts each
\* enumerated key once, whatever its outcome (directory, matches, binary or
\* error): it is the number of keys whose future has completed, never more
\* than the number of keys yielded, and equal to it when the run completes.
C21_ProcessedCounter ==
    ~quiet =>
        /\ pos = Len(collected)
        /\ \A i \in 1..Len(collected) : Len(OutcomesOf(collected[i].key)) = 1
        /\ pos <= Len(yielded)
        /\ run_pc = "done" => pos = Len(yielded)

C21_Witness ==
    /\ ~quiet
    /\ run_pc = "done"
    /\ concurrent_tasks = 2
    /\ pos = 3
    /\ \E i, j, k \in 1..Len(collected) :
          /\ collected[i].outcome = "directory"
          /\ collected[j].outcome = "error"
          /\ collected[k].outcome \in {"matches", "binary"}

====
